---- MODULE Spec2Model ----
(***************************************************************************)
(* Model of announce.py: the Announce value (one mux's AS-path             *)
(* manipulation) and the PrefixAnnounce mapping from mux names to          *)
(* Announce values, with their parsing, rendering, hashing and equality.   *)
(*                                                                         *)
(* Text is modelled as a sequence of one-character strings, so that        *)
(* rendering and parsing are computed character by character as the code   *)
(* computes them.                                                          *)
(***************************************************************************)
EXTENDS Integers, Sequences, FiniteSets, TLC

(* ----------------------------------------------------------------------- *)
(* Module constants                                                        *)
(* ----------------------------------------------------------------------- *)

HOMEASN == 47065

WITHDRAWN == <<"w","i","t","h","d","r","a","w","n">>
ANNOUNCED == <<"a","n","n","o","u","n","c","e","d">>
NOPREPEND == <<"n","o","p","r","e","p","e","n","d">>
PREPENDED == <<"p","r","e","p","e","n","d","e","d">>
POISONED == <<"p","o","i","s","o","n","e","d">>

(* ----------------------------------------------------------------------- *)
(* Python built-ins on text, as far as the module uses them                *)
(* ----------------------------------------------------------------------- *)

Digits == <<"0","1","2","3","4","5","6","7","8","9">>

IsDigit(c) == \E i \in 1..10 : Digits[i] = c

DigitVal(c) == (CHOOSE i \in 1..10 : Digits[i] = c) - 1

\* str.replace(old, new) for single characters
Replace(s, old, new) == [i \in 1..Len(s) |-> IF s[i] = old THEN new ELSE s[i]]

\* index of the first occurrence of character c in s, 0 when absent
Find(s, c) ==
    IF \E i \in 1..Len(s) : s[i] = c
    THEN CHOOSE i \in 1..Len(s) : s[i] = c /\ \A j \in 1..(i-1) : s[j] # c
    ELSE 0

\* str.partition(c): <<head, rest>>; without c the head is all of s
Partition(s, c) ==
    LET i == Find(s, c) IN
    IF i = 0 THEN <<s, <<>>>>
    ELSE <<SubSeq(s, 1, i-1), SubSeq(s, i+1, Len(s))>>

\* str.split(c): the fields between the occurrences of c (at least one field)
RECURSIVE SplitOn(_, _)
SplitOn(s, c) ==
    LET i == Find(s, c) IN
    IF i = 0 THEN <<s>>
    ELSE <<SubSeq(s, 1, i-1)>> \o SplitOn(SubSeq(s, i+1, Len(s)), c)

\* str.strip(): blanks removed from both ends
RECURSIVE Strip(_)
Strip(s) ==
    IF s = <<>> THEN s
    ELSE IF Head(s) = " " THEN Strip(Tail(s))
    ELSE IF s[Len(s)] = " " THEN Strip(SubSeq(s, 1, Len(s)-1))
    ELSE s

\* str.split(): the maximal runs of non-blank characters
RECURSIVE Split(_)
Split(s) ==
    IF s = <<>> THEN <<>>
    ELSE IF Head(s) = " " THEN Split(Tail(s))
    ELSE LET i == Find(s, " ") IN
         IF i = 0 THEN <<s>>
         ELSE <<SubSeq(s, 1, i-1)>> \o Split(SubSeq(s, i+1, Len(s)))

\* value of a run of decimal digits
RECURSIVE DigitsVal(_)
DigitsVal(s) ==
    IF s = <<>> THEN 0
    ELSE 10 * DigitsVal(SubSeq(s, 1, Len(s)-1)) + DigitVal(s[Len(s)])

AllDigits(s) == s # <<>> /\ \A i \in 1..Len(s) : IsDigit(s[i])

\* int(token) on a blank-free token: an optional sign and decimal digits,
\* anything else raises ValueError
IntOk(tok) ==
    \/ AllDigits(tok)
    \/ tok # <<>> /\ Head(tok) \in {"-", "+"} /\ AllDigits(Tail(tok))

IntVal(tok) ==
    IF Head(tok) = "-" THEN 0 - DigitsVal(Tail(tok))
    ELSE IF Head(tok) = "+" THEN DigitsVal(Tail(tok))
    ELSE DigitsVal(tok)

\* str(n) for a natural number
RECURSIVE NatStr(_)
NatStr(n) ==
    IF n < 10 THEN <<Digits[n+1]>>
    ELSE NatStr(n \div 10) \o <<Digits[(n % 10) + 1]>>

\* str(n) for an integer
IntStr(n) == IF n < 0 THEN <<"-">> \o NatStr(0 - n) ELSE NatStr(n)

\* sep.join(parts)
RECURSIVE Join(_, _)
Join(parts, sep) ==
    IF parts = <<>> THEN <<>>
    ELSE IF Len(parts) = 1 THEN parts[1]
    ELSE parts[1] \o sep \o Join(Tail(parts), sep)

\* sorted(S) for a set of integers
RECURSIVE Sorted(_)
Sorted(S) ==
    IF S = {} THEN <<>>
    ELSE LET m == CHOOSE x \in S : \A y \in S : x <= y
         IN <<m>> \o Sorted(S \ {m})

(* ----------------------------------------------------------------------- *)
(* Values                                                                  *)
(* ----------------------------------------------------------------------- *)

\* A path element: a bare AS number n (IntEl) or a frozenset of AS numbers
\* (SetEl).  An int never compares equal to a frozenset in Python, which the
\* flag keeps.
IntEl(n) == [set |-> FALSE, m |-> {n}]
SetEl(S) == [set |-> TRUE, m |-> S]

\* What a caller may put into a sequence spec: an int, a str, a set of ints,
\* or something else (a float).
TInt(n) == [k |-> "int", n |-> n, s |-> <<>>, m |-> {}]
TStr(s) == [k |-> "str", n |-> 0, s |-> s, m |-> {}]
TSet(S) == [k |-> "set", n |-> 0, s |-> <<>>, m |-> S]
TFloat == [k |-> "float", n |-> 0, s |-> <<>>, m |-> {}]

\* What a caller may pass as spec: a str, a tuple/list, or something else.
StrSpec(s) == [k |-> "str", s |-> s, els |-> <<>>]
SeqSpec(els) == [k |-> "seq", s |-> <<>>, els |-> els]
OtherSpec == [k |-> "other", s |-> <<>>, els |-> <<>>]

\* The three shapes self.prepend takes: None, a tuple, or the list that
\* _parse_str builds before it converts it.
NonePrepend == [kind |-> "None", els |-> <<>>]
TuplePrepend(els) == [kind |-> "tuple", els |-> els]
ListPrepend(els) == [kind |-> "list", els |-> els]

\* The outcomes of an operation: "ok" or the exception raised, named by the
\* statement that raises it.  The three ValueErrors are one class in Python:
\* int() on a bad token, the terminator check of _parse_update, and the
\* unpacking of entry.split(':') in from_str.
ErrInt == "ValueError:int"
ErrTerminator == "ValueError:terminator"
ErrUnpack == "ValueError:unpack"
ErrIndex == "IndexError"
ErrAssert == "AssertionError"
ErrType == "TypeError"
ErrRuntime == "RuntimeError"

(* ----------------------------------------------------------------------- *)
(* Announce                                                                *)
(* ----------------------------------------------------------------------- *)

\* _parse_single_token
_parse_single_token(token) ==
    IF token.k = "str" THEN
        IF IntOk(token.s) THEN [err |-> "ok", el |-> IntEl(IntVal(token.s))]
        ELSE [err |-> ErrInt, el |-> IntEl(0)]
    ELSE IF token.k = "int" THEN [err |-> "ok", el |-> IntEl(token.n)]
    ELSE IF token.k = "set" THEN [err |-> "ok", el |-> SetEl(token.m)]
    ELSE [err |-> ErrType, el |-> IntEl(0)]

\* list.extend(_parse_single_token(t) for t in toks): the elements before a
\* token that raises are already in the list
RECURSIVE ExtendTokens(_, _)
ExtendTokens(acc, toks) ==
    IF toks = <<>> THEN [err |-> "ok", list |-> acc]
    ELSE LET r == _parse_single_token(TStr(Head(toks))) IN
         IF r.err # "ok" THEN [err |-> r.err, list |-> acc]
         ELSE ExtendTokens(Append(acc, r.el), Tail(toks))

\* the while loop and the trailing extend of _parse_str
RECURSIVE ParseStrLoop(_, _)
ParseStrLoop(acc, string) ==
    IF Find(string, "{") # 0 THEN
        LET p == Partition(string, "{")
            r == ExtendTokens(acc, Split(p[1]))
            q == Partition(p[2], "}")
            toks == Split(q[1])
        IN  IF r.err # "ok" THEN r
            ELSE IF \E i \in 1..Len(toks) : ~IntOk(toks[i])
                 THEN [err |-> ErrInt, list |-> r.list]
            ELSE ParseStrLoop(
                     Append(r.list, SetEl({IntVal(toks[i]) : i \in 1..Len(toks)})),
                     q[2])
    ELSE ExtendTokens(acc, Split(string))

\* set(self.prepend)
ElemSet(els) == {els[i] : i \in 1..Len(els)}

\* the poisoned set that _parse_update collects
RECURSIVE CollectPoisoned(_)
CollectPoisoned(els) ==
    IF els = <<>> THEN {}
    ELSE LET e == Head(els) IN
         (IF e = IntEl(HOMEASN) THEN {} ELSE e.m) \cup CollectPoisoned(Tail(els))

\* _parse_update with a PREPENDED path of fewer than two elements rejected
\* (the second assertion strengthened)
ParseUpdateTwoElements(self) ==
    LET els == self.prepend.els IN
    IF els = <<>> THEN [err |-> ErrIndex, obj |-> self]
    ELSE IF els[Len(els)] # IntEl(HOMEASN) THEN [err |-> ErrTerminator, obj |-> self]
    ELSE LET s1 == [self EXCEPT !.poisoned = CollectPoisoned(els)] IN
         IF s1.poisoned # {} THEN
             IF ~(Cardinality(ElemSet(els)) > 1) THEN [err |-> ErrAssert, obj |-> s1]
             ELSE [err |-> "ok", obj |-> [s1 EXCEPT !.status = {ANNOUNCED, POISONED}]]
         ELSE
             IF ElemSet(els) # {IntEl(HOMEASN)} \/ Len(els) < 2 THEN [err |-> ErrAssert, obj |-> s1]
             ELSE [err |-> "ok", obj |-> [s1 EXCEPT !.status = {ANNOUNCED, PREPENDED}]]

\* _parse_update on an object whose prepend was just assigned
_parse_update(self) ==
    LET els == self.prepend.els IN
    IF els = <<>> THEN [err |-> ErrIndex, obj |-> self]
    ELSE IF els[Len(els)] # IntEl(HOMEASN) THEN [err |-> ErrTerminator, obj |-> self]
    ELSE LET s1 == [self EXCEPT !.poisoned = CollectPoisoned(els)] IN
         IF s1.poisoned # {} THEN
             IF ~(Cardinality(ElemSet(els)) > 1) THEN [err |-> ErrAssert, obj |-> s1]
             ELSE [err |-> "ok", obj |-> [s1 EXCEPT !.status = {ANNOUNCED, POISONED}]]
         ELSE
             IF ElemSet(els) # {IntEl(HOMEASN)} THEN [err |-> ErrAssert, obj |-> s1]
             ELSE [err |-> "ok", obj |-> [s1 EXCEPT !.status = {ANNOUNCED, PREPENDED}]]

\* _parse_str after its loop ended with r: a token that raised leaves the
\* list in self.prepend, otherwise the list becomes a tuple
ParseStrEnd(self, r) ==
    IF r.err # "ok" THEN [err |-> r.err, obj |-> [self EXCEPT !.prepend = ListPrepend(r.list)]]
    ELSE _parse_update([self EXCEPT !.prepend = TuplePrepend(r.list)])

\* _parse_str
_parse_str(self, string) ==
    ParseStrEnd(self, ParseStrLoop(<<>>, Replace(string, ",", " ")))

\* tuple(_parse_single_token(t) for t in iterable)
RECURSIVE TupleOfTokens(_, _)
TupleOfTokens(acc, toks) ==
    IF toks = <<>> THEN [err |-> "ok", list |-> acc]
    ELSE LET r == _parse_single_token(Head(toks)) IN
         IF r.err # "ok" THEN [err |-> r.err, list |-> acc]
         ELSE TupleOfTokens(Append(acc, r.el), Tail(toks))

\* _parse_iter after the tuple was built with outcome r: nothing is assigned
\* when a token raised
ParseIterEnd(self, r) ==
    IF r.err # "ok" THEN [err |-> r.err, obj |-> self]
    ELSE _parse_update([self EXCEPT !.prepend = TuplePrepend(r.list)])

\* _parse_iter
_parse_iter(self, iterable) ==
    ParseIterEnd(self, TupleOfTokens(<<>>, iterable))

\* Announce.__ilshift__: the outcome and the object as the call leaves it
__ilshift__(self, spec) ==
    IF spec = StrSpec(WITHDRAWN) THEN
        [err |-> "ok",
         obj |-> [status |-> {WITHDRAWN}, prepend |-> NonePrepend, poisoned |-> {}]]
    ELSE IF spec = StrSpec(NOPREPEND) THEN
        [err |-> "ok",
         obj |-> [status |-> {ANNOUNCED, NOPREPEND}, prepend |-> NonePrepend, poisoned |-> {}]]
    ELSE IF spec.k = "str" THEN _parse_str(self, spec.s)
    ELSE IF spec.k = "seq" THEN _parse_iter(self, spec.els)
    ELSE [err |-> ErrRuntime, obj |-> self]

\* Announce.__init__
__init__(spec) ==
    __ilshift__([status |-> {}, prepend |-> TuplePrepend(<<>>), poisoned |-> {}], spec)

\* Announce.__str__ of one path element
ElemStr(e) ==
    IF e.set THEN <<"{">> \o Join([i \in 1..Cardinality(e.m) |-> IntStr(Sorted(e.m)[i])], <<" ">>) \o <<"}">>
    ELSE IntStr(CHOOSE n \in e.m : TRUE)

\* Announce.__str__
AnnounceStr(self) ==
    IF WITHDRAWN \in self.status THEN WITHDRAWN
    ELSE IF NOPREPEND \in self.status THEN NOPREPEND
    ELSE Join([i \in 1..Len(self.prepend.els) |-> ElemStr(self.prepend.els[i])], <<" ">>)

(* ----------------------------------------------------------------------- *)
(* Hashing and equality of Announce                                        *)
(* ----------------------------------------------------------------------- *)

\* hash(n) of a Python int whose magnitude is below 2**61 - 1: the number
\* itself, except that -1 is reserved for errors and hashes to -2.
PyHashInt(n) == IF n = -1 THEN -2 ELSE n

\* hash(e) of a path element.  The hash of a frozenset is a function of the
\* hashes of its members with their multiplicities; the mixing itself is taken
\* to be free of further collisions.
ElemHash(e) ==
    LET hs == {PyHashInt(x) : x \in e.m} IN
    [set |-> e.set, bag |-> [h \in hs |-> Cardinality({x \in e.m : PyHashInt(x) = h})]]

\* Announce.__hash__: hash((self.status, self.prepend)).  The hash of a tuple
\* is a function of the hashes of its items in order.  (It is applied to
\* objects whose prepend is None or a tuple only; a list is unhashable.)
AnnounceHash(self) ==
    [status |-> self.status,
     none |-> self.prepend.kind = "None",
     items |-> [i \in 1..Len(self.prepend.els) |-> ElemHash(self.prepend.els[i])]]

\* Announce.__eq__
AnnounceEq(self, other) == AnnounceHash(self) = AnnounceHash(other)

(* ----------------------------------------------------------------------- *)
(* The specs the callers of the model pass                                 *)
(* ----------------------------------------------------------------------- *)

H == IntStr(HOMEASN)
SP == <<" ">>

TextSpecs ==
    { WITHDRAWN,
      NOPREPEND,
      PREPENDED,
      <<>>,
      H,
      H \o SP \o H \o SP \o H,
      H \o <<",">> \o H \o <<",">> \o H,
      <<"7","0","4"," ","{","3","4",",","3","5","}"," ">> \o H,
      <<"7","0","4"," ","{","3","5"," ","3","4","}"," ">> \o H,
      <<"7","0","4"," ","{","3","5"," ","3","5"," ","3","6","}">>,
      <<"7","0","4"," ","x"," ">> \o H,
      <<"7","0","4"," ">> \o H,
      <<"{">> \o H \o <<"}"," ">> \o H,
      H \o <<" ","{">> \o H \o <<"}">>,
      <<"{","}"," ">> \o H,
      <<"-","1"," ">> \o H,
      <<"-","2"," ">> \o H }

SeqSpecs ==
    { <<>>,
      <<TInt(HOMEASN)>>,
      <<TInt(HOMEASN), TInt(HOMEASN)>>,
      <<TStr(<<"7","0","4">>), TSet({34, 35}), TInt(HOMEASN)>>,
      <<TInt(704), TSet({}), TInt(HOMEASN)>>,
      <<TSet({}), TInt(HOMEASN)>>,
      <<TInt(704), TStr(<<"x">>), TInt(HOMEASN)>>,
      <<TFloat, TInt(HOMEASN)>>,
      <<TInt(704), TSet({HOMEASN})>> }

AnnounceSpecs ==
    {StrSpec(t) : t \in TextSpecs} \cup {SeqSpec(q) : q \in SeqSpecs} \cup {OtherSpec}

\* the specs that describe a path: everything but the two sentinels and the
\* unsupported types
IsPathSpec(spec) ==
    spec.k \in {"str", "seq"} /\ spec \notin {StrSpec(WITHDRAWN), StrSpec(NOPREPEND)}

(* ----------------------------------------------------------------------- *)
(* PrefixAnnounce                                                          *)
(* ----------------------------------------------------------------------- *)

\* A PrefixAnnounce: the dict's items in insertion order, and the identifier
\* (None until close() is called).
Item(mux, a) == [mux |-> mux, a |-> a]

\* PrefixAnnounce.__init__
NewPrefix == [items |-> <<>>, closed |-> FALSE, identifier |-> {}]

HasKey(items, mux) == \E i \in 1..Len(items) : items[i].mux = mux

\* dict.__setitem__: a new key goes last, an existing key keeps its place
DictSet(items, mux, a) ==
    IF HasKey(items, mux)
    THEN [i \in 1..Len(items) |-> IF items[i].mux = mux THEN Item(mux, a) ELSE items[i]]
    ELSE Append(items, Item(mux, a))

\* PrefixAnnounce.__setitem__ with an Announce
SetItemAnnounce(self, mux, a) == [self EXCEPT !.items = DictSet(self.items, mux, a)]

\* PrefixAnnounce.__setitem__ after Announce(spec) ended with r
SetItemEnd(self, mux, r) ==
    IF r.err # "ok" THEN [err |-> r.err, obj |-> self]
    ELSE [err |-> "ok", obj |-> SetItemAnnounce(self, mux, r.obj)]

\* PrefixAnnounce.__setitem__ with a spec that is not an Announce: the
\* outcome, and the object as the call leaves it
__setitem__(self, mux, s) == SetItemEnd(self, mux, __init__(s))

\* frozenset(self.items()): the keys of a dict are distinct, so no two items
\* collapse
ItemSet(items) == {items[i] : i \in 1..Len(items)}

\* PrefixAnnounce.close
close(self) == [self EXCEPT !.closed = TRUE, !.identifier = ItemSet(self.items)]

\* PrefixAnnounce.__str__
PrefixStr(self) ==
    Join([i \in 1..Len(self.items) |->
              self.items[i].mux \o <<":", " ">> \o AnnounceStr(self.items[i].a)],
         <<";", " ">>)

\* entry.split(':', 1): a split at the first colon only
EntryPartsFirstColon(entry) ==
    IF Find(entry, ":") = 0 THEN <<entry>>
    ELSE <<Partition(entry, ":")[1], Partition(entry, ":")[2]>>

\* entry.split(':')
EntryParts(entry) == SplitOn(entry, ":")

RECURSIVE FromStrLoop(_, _)

\* the body of from_str's loop once Announce(prepstr) ended with r
FromStrStore(pfxa, mux, r, rest) ==
    IF r.err # "ok" THEN [err |-> r.err, obj |-> pfxa]
    ELSE FromStrLoop(SetItemAnnounce(pfxa, mux, r.obj), rest)

\* the body of from_str's loop on one entry split into parts: the unpacking
\* into mux and prepstr wants exactly two parts
FromStrEntry(pfxa, parts, rest) ==
    IF Len(parts) # 2 THEN [err |-> ErrUnpack, obj |-> pfxa]
    ELSE FromStrStore(pfxa, Strip(parts[1]), __init__(StrSpec(Strip(parts[2]))), rest)

\* the loop of from_str over the entries that are left
FromStrLoop(pfxa, entries) ==
    IF entries = <<>> THEN [err |-> "ok", obj |-> pfxa]
    ELSE FromStrEntry(pfxa, EntryParts(Head(entries)), Tail(entries))

\* from_str after its loop ended with r
FromStrEnd(r) ==
    IF r.err # "ok" THEN r ELSE [err |-> "ok", obj |-> close(r.obj)]

\* PrefixAnnounce.from_str: the outcome and, when it is "ok", the object
\* returned
from_str(string) == FromStrEnd(FromStrLoop(NewPrefix, SplitOn(string, ";")))

\* PrefixAnnounce.__hash__: the assertion, then hash(self.identifier).  The
\* hash of a frozenset of (mux, Announce) tuples is a function of the hashes
\* of its members.
PrefixHashErr(self) == IF self.closed THEN "ok" ELSE ErrAssert

PrefixHash(self) == {<<it.mux, AnnounceHash(it.a)>> : it \in self.identifier}

\* self == other: PrefixAnnounce defines no __eq__, so this is dict.__eq__ on
\* the live items, which raises nothing whether or not close() was called;
\* the values are compared with Announce.__eq__
PrefixEqErr(self, other) == "ok"

PrefixEq(self, other) ==
    /\ Len(self.items) = Len(other.items)
    /\ \A i \in 1..Len(self.items) :
           \E j \in 1..Len(other.items) :
               /\ self.items[i].mux = other.items[j].mux
               /\ AnnounceEq(self.items[i].a, other.items[j].a)

\* self.identifier == other.identifier, for two closed objects: frozenset
\* equality, whose members are compared as tuples
IdentifierEq(self, other) ==
    /\ Cardinality(self.identifier) = Cardinality(other.identifier)
    /\ \A e \in self.identifier :
           \E f \in other.identifier : e.mux = f.mux /\ AnnounceEq(e.a, f.a)

(* ----------------------------------------------------------------------- *)
(* The mux names, specs and texts the callers of PrefixAnnounce pass       *)
(* ----------------------------------------------------------------------- *)

WI == <<"w","i">>
GA == <<"g","a">>
CS == <<":", " ">>
SS == <<";", " ">>
P704 == <<"7","0","4"," ","{","3","5"," ","3","4","}"," ">> \o H

MuxNames == {WI, GA}

PrefixSpecs ==
    { StrSpec(WITHDRAWN),
      StrSpec(NOPREPEND),
      StrSpec(P704),
      SeqSpec(<<TInt(HOMEASN)>>),
      StrSpec(<<"7","0","4">>) }

PrefixTexts ==
    { <<>>,
      WI \o CS \o WITHDRAWN \o SS \o GA \o CS \o NOPREPEND,
      GA \o <<":">> \o NOPREPEND \o <<" ",";">> \o WI \o <<" ",":"," "," ">> \o WITHDRAWN,
      WI \o <<" ">> \o WITHDRAWN,
      WI \o CS \o GA \o CS \o WITHDRAWN,
      WI \o CS \o WITHDRAWN \o <<";">>,
      WI \o CS \o <<"7","0","4">>,
      GA \o CS \o P704,
      WI \o CS \o WITHDRAWN \o SS \o WI \o CS \o H }

\* the number of operations on the PrefixAnnounce objects in one run
MaxOps == 4

(* ----------------------------------------------------------------------- *)
(* State                                                                   *)
(* ----------------------------------------------------------------------- *)

VARIABLES
    ann,      \* the Announce object a caller holds and reassigns
    other,    \* a second Announce, to compare ann with
    op,       \* the last operation on ann: "init", "construct" or "reassign"
    spec,     \* the spec it was given
    res,      \* its outcome: "ok" or the exception raised
    pfx,      \* two PrefixAnnounce objects: pfx[1] is built by its caller,
              \* pfx[2] is bound to what from_str returns
    pop,      \* the last operation on them: "init", "set", "close", "from_str", "roundtrip"
    ptext,    \* the text the last from_str was given
    pres,     \* its outcome: "ok" or the exception raised
    nops,     \* the number of operations on pfx so far
    scenario  \* which objects the caller works on in this run

annVars == <<ann, other, op, spec, res>>

pfxVars == <<pfx, pop, ptext, pres, nops>>

vars == <<ann, other, op, spec, res, pfx, pop, ptext, pres, nops, scenario>>

\* The Announce objects and the PrefixAnnounce objects share no state.  A run
\* works on one Announce that is constructed and reassigned ("reassign"), on
\* two Announce objects that are constructed and compared ("compare"), or on
\* the two PrefixAnnounce objects ("prefix").
Scenarios == {"reassign", "compare", "prefix"}

\* a = Announce(); b = Announce(); x = PrefixAnnounce(); y = PrefixAnnounce()
Init ==
    /\ ann = __init__(StrSpec(WITHDRAWN)).obj
    /\ other = __init__(StrSpec(WITHDRAWN)).obj
    /\ op = "init"
    /\ spec = StrSpec(WITHDRAWN)
    /\ res = "ok"
    /\ pfx = <<NewPrefix, NewPrefix>>
    /\ pop = "init"
    /\ ptext = <<>>
    /\ pres = "ok"
    /\ nops = 0
    /\ scenario \in Scenarios

\* a = Announce(s): a constructor that raises leaves a bound to the old object
Construct(s) ==
    /\ scenario \in {"reassign", "compare"}
    /\ \E r \in {__init__(s)} :
           /\ ann' = IF r.err = "ok" THEN r.obj ELSE ann
           /\ op' = "construct"
           /\ spec' = s
           /\ res' = r.err
           /\ UNCHANGED other
           /\ UNCHANGED pfxVars
           /\ UNCHANGED scenario

\* a <<= s: the object is left as the call left it, also when it raises
Reassign(s) ==
    /\ scenario = "reassign"
    /\ \E r \in {__ilshift__(ann, s)} :
           /\ ann' = r.obj
           /\ op' = "reassign"
           /\ spec' = s
           /\ res' = r.err
           /\ UNCHANGED other
           /\ UNCHANGED pfxVars
           /\ UNCHANGED scenario

\* b = Announce(s), for the specs the constructor accepts
ConstructOther(s) ==
    /\ scenario = "compare"
    /\ \E r \in {__init__(s)} :
           /\ r.err = "ok"
           /\ other' = r.obj
           /\ UNCHANGED <<ann, op, spec, res>>
           /\ UNCHANGED pfxVars
           /\ UNCHANGED scenario

NextAnnounce ==
    \E s \in AnnounceSpecs : Construct(s) \/ Reassign(s) \/ ConstructOther(s)

\* pfx[1][mux] = s, with s a spec
SetSpec(mux, s) ==
    /\ scenario = "prefix"
    /\ nops < MaxOps
    /\ \E r \in {__setitem__(pfx[1], mux, s)} :
           /\ pfx' = [pfx EXCEPT ![1] = r.obj]
           /\ pop' = "set"
           /\ pres' = r.err
           /\ nops' = nops + 1
           /\ UNCHANGED ptext
           /\ UNCHANGED annVars
           /\ UNCHANGED scenario

\* pfx[1][mux] = Announce(s): the constructor raises before the item is set
SetAnnounce(mux, s) ==
    /\ scenario = "prefix"
    /\ nops < MaxOps
    /\ \E r \in {__init__(s)} :
           /\ pfx' = [pfx EXCEPT ![1] = IF r.err = "ok" THEN SetItemAnnounce(pfx[1], mux, r.obj) ELSE pfx[1]]
           /\ pop' = "set"
           /\ pres' = r.err
           /\ nops' = nops + 1
           /\ UNCHANGED ptext
           /\ UNCHANGED annVars
           /\ UNCHANGED scenario

\* pfx[i].close()
Close(i) ==
    /\ scenario = "prefix"
    /\ nops < MaxOps
    /\ pfx' = [pfx EXCEPT ![i] = close(pfx[i])]
    /\ pop' = "close"
    /\ pres' = "ok"
    /\ nops' = nops + 1
    /\ UNCHANGED ptext
    /\ UNCHANGED annVars
    /\ UNCHANGED scenario

\* pfx[2] = PrefixAnnounce.from_str(text): a call that raises leaves pfx[2]
\* bound to the old object
FromStr(text) ==
    /\ scenario = "prefix"
    /\ nops < MaxOps
    /\ \E r \in {from_str(text)} :
           /\ pfx' = [pfx EXCEPT ![2] = IF r.err = "ok" THEN r.obj ELSE pfx[2]]
           /\ pop' = "from_str"
           /\ ptext' = text
           /\ pres' = r.err
           /\ nops' = nops + 1
           /\ UNCHANGED annVars
           /\ UNCHANGED scenario

\* pfx[2] = PrefixAnnounce.from_str(str(pfx[1]))
RoundTrip ==
    /\ scenario = "prefix"
    /\ nops < MaxOps
    /\ \E text \in {PrefixStr(pfx[1])} : \E r \in {from_str(text)} :
           /\ pfx' = [pfx EXCEPT ![2] = IF r.err = "ok" THEN r.obj ELSE pfx[2]]
           /\ pop' = "roundtrip"
           /\ ptext' = text
           /\ pres' = r.err
           /\ nops' = nops + 1
           /\ UNCHANGED annVars
           /\ UNCHANGED scenario

NextPrefix ==
    \/ \E mux \in MuxNames, s \in PrefixSpecs : SetSpec(mux, s)
    \/ \E mux \in MuxNames, s \in PrefixSpecs : SetAnnounce(mux, s)
    \/ \E i \in 1..2 : Close(i)
    \/ \E text \in PrefixTexts : FromStr(text)
    \/ RoundTrip

Next == NextAnnounce \/ NextPrefix

Spec == Init /\ [][Next]_vars

(* ----------------------------------------------------------------------- *)
(* Properties of Announce                                                  *)
(* ----------------------------------------------------------------------- *)

CanonicalStatus ==
    { {WITHDRAWN}, {ANNOUNCED, NOPREPEND}, {ANNOUNCED, PREPENDED}, {ANNOUNCED, POISONED} }

\* all AS numbers occurring in a path, bare or inside an AS set
AllAS(els) == UNION {els[i].m : i \in 1..Len(els)}

\* the path a spec denotes, when its tokens parse
PathOf(s) ==
    IF s.k = "str" THEN ParseStrLoop(<<>>, Replace(s.s, ",", " "))
    ELSE TupleOfTokens(<<>>, s.els)

EndsWithHome(els) == els # <<>> /\ els[Len(els)] = IntEl(HOMEASN)

\* the specs whose path is the single element HOMEASN
IsSingleHome(s) ==
    IsPathSpec(s) /\ PathOf(s) = [err |-> "ok", list |-> <<IntEl(HOMEASN)>>]

\* C4: a reassignment that raises leaves status, prepend and poisoned exactly
\* as they were before the call.
C4_ReassignAtomic ==
    [][(op' = "reassign" /\ res' # "ok") =>
          /\ ann'.status = ann.status
          /\ ann'.prepend = ann.prepend
          /\ ann'.poisoned = ann.poisoned]_vars

\* C5: two validly constructed Announce values are equal if and only if their
\* status and their prepend are equal.
C5_EqIffStatusAndPrepend ==
    (scenario = "compare" /\ res = "ok") =>
        (AnnounceEq(ann, other) <=>
            (ann.status = other.status /\ ann.prepend = other.prepend))

\* C6: after a successful construction or reassignment from a path spec,
\* poisoned is the set of all AS numbers of prepend other than HOMEASN, so
\* HOMEASN is never poisoned.
C6_PoisonedIsUnionWithoutHome ==
    (op # "init" /\ res = "ok" /\ IsPathSpec(spec)) =>
        ann.poisoned = AllAS(ann.prepend.els) \ {HOMEASN}

\* C7 as stated: the path spec made of the single element HOMEASN is rejected,
\* and every successfully built Announce with status {ANNOUNCED, PREPENDED}
\* has at least two elements in prepend.
C7_SingleHomeRejected ==
    /\ (op # "init" /\ IsSingleHome(spec)) => res # "ok"
    /\ (res = "ok" /\ ann.status = {ANNOUNCED, PREPENDED}) => Len(ann.prepend.els) >= 2

\* C7 as amended: the path spec made of the single element HOMEASN is
\* accepted and gives status {ANNOUNCED, PREPENDED} with the one-element
\* prepend (HOMEASN) and no poisoned AS; every successfully built Announce
\* with status {ANNOUNCED, PREPENDED} has at least one element in prepend,
\* and every element is HOMEASN.
C7_SingleHomeAccepted ==
    /\ (op # "init" /\ IsSingleHome(spec)) =>
           /\ res = "ok"
           /\ ann = [status |-> {ANNOUNCED, PREPENDED},
                     prepend |-> TuplePrepend(<<IntEl(HOMEASN)>>),
                     poisoned |-> {}]
    /\ (res = "ok" /\ ann.status = {ANNOUNCED, PREPENDED}) =>
           /\ ann.prepend.kind = "tuple"
           /\ Len(ann.prepend.els) >= 1
           /\ \A i \in 1..Len(ann.prepend.els) : ann.prepend.els[i] = IntEl(HOMEASN)

\* a reassignment with the single element HOMEASN has succeeded
C7_Witness ==
    /\ op = "reassign"
    /\ IsSingleHome(spec)
    /\ res = "ok"
    /\ ann.prepend = TuplePrepend(<<IntEl(HOMEASN)>>)

\* C8: a path spec succeeds only if its path ends with the bare HOMEASN; every
\* path that does not, the empty path included, fails with the
\* invalid-path-terminator error; a successfully built prepend ends with
\* HOMEASN.
C8_InvalidTerminator ==
    (op # "init" /\ IsPathSpec(spec)) =>
        /\ res = "ok" => (PathOf(spec).err = "ok" /\ EndsWithHome(PathOf(spec).list))
        /\ (PathOf(spec).err = "ok" /\ ~EndsWithHome(PathOf(spec).list)) => res = ErrTerminator
        /\ res = "ok" => EndsWithHome(ann.prepend.els)

\* C10: in every state of the Announce, status is one of the four canonical
\* combinations and poisoned is non-empty exactly when status is
\* {ANNOUNCED, POISONED}.
C10_StatusCanonical ==
    /\ ann.status \in CanonicalStatus
    /\ (ann.poisoned # {}) <=> (ann.status = {ANNOUNCED, POISONED})

(* ----------------------------------------------------------------------- *)
(* Properties of PrefixAnnounce                                            *)
(* ----------------------------------------------------------------------- *)

\* identifier is what close() would compute now
IdentifierCurrent(self) == self.closed /\ self.identifier = ItemSet(self.items)

\* the number of colons of an entry
Colons(e) == Cardinality({i \in 1..Len(e) : e[i] = ":"})

\* an entry "mux: text" with one colon and a text Announce accepts
EntryOk(e) ==
    Colons(e) = 1 /\ __init__(StrSpec(Strip(Partition(e, ":")[2]))).err = "ok"

\* entry i is the first one from_str can stumble over
FirstStop(es, i) == \A j \in 1..(i-1) : EntryOk(es[j])

\* C1: before close(), hash(x) and x == y both fail with the not-closed error.
C1_NotClosedFails ==
    \A i \in 1..2 :
        ~pfx[i].closed =>
            /\ PrefixHashErr(pfx[i]) = ErrAssert
            /\ PrefixEqErr(pfx[i], pfx[3 - i]) = ErrAssert

\* C2: for two closed objects, x == y holds exactly when their identifiers
\* are equal, and x == y implies hash(x) == hash(y).
C2_EqIffIdentifier ==
    (pfx[1].closed /\ pfx[2].closed) =>
        /\ PrefixEq(pfx[1], pfx[2]) <=> IdentifierEq(pfx[1], pfx[2])
        /\ PrefixEq(pfx[1], pfx[2]) => PrefixHash(pfx[1]) = PrefixHash(pfx[2])

\* C3: for a closed x built by zero or more set operations,
\* from_str(str(x)) succeeds and returns a closed object equal to x with the
\* same hash.
C3_RoundTrip ==
    (pop = "roundtrip" /\ IdentifierCurrent(pfx[1])) =>
        /\ pres = "ok"
        /\ pfx[2].closed
        /\ PrefixEq(pfx[2], pfx[1])
        /\ PrefixHash(pfx[2]) = PrefixHash(pfx[1])

\* C9 as stated: an entry without a colon fails with the malformed-entry
\* error; an entry with more than one colon is split at its first colon and
\* the remainder goes to Announce, whose outcome is the outcome of the call;
\* an object returned is closed.
C9_SplitOnFirstColon ==
    pop \in {"from_str", "roundtrip"} =>
        /\ \A i \in 1..Len(SplitOn(ptext, ";")) :
               (Colons(SplitOn(ptext, ";")[i]) = 0 /\ FirstStop(SplitOn(ptext, ";"), i))
                   => pres = ErrUnpack
        /\ \A i \in 1..Len(SplitOn(ptext, ";")) :
               (Colons(SplitOn(ptext, ";")[i]) > 1 /\ FirstStop(SplitOn(ptext, ";"), i))
                   => pres = __init__(StrSpec(Strip(Partition(SplitOn(ptext, ";")[i], ":")[2]))).err
        /\ pres = "ok" => IdentifierCurrent(pfx[2])

\* C9 as amended: an entry whose number of colons is not exactly one (none,
\* or more than one) fails with the malformed-entry error, raised where the
\* split is unpacked into mux and announce text; an object returned is closed.
C9_SplitOnEveryColon ==
    pop \in {"from_str", "roundtrip"} =>
        /\ \A i \in 1..Len(SplitOn(ptext, ";")) :
               (Colons(SplitOn(ptext, ";")[i]) # 1 /\ FirstStop(SplitOn(ptext, ";"), i))
                   => pres = ErrUnpack
        /\ pres = "ok" => IdentifierCurrent(pfx[2])

\* from_str was given an entry with two colons after well-formed entries,
\* and raised at the unpacking
C9_Witness ==
    /\ pop = "from_str"
    /\ pres = ErrUnpack
    /\ \E i \in 1..Len(SplitOn(ptext, ";")) :
           Colons(SplitOn(ptext, ";")[i]) > 1 /\ FirstStop(SplitOn(ptext, ";"), i)

====
